---- MODULE Spec2Model ----
(***************************************************************************)
(* Model of shared/SpDatabaseWrapper.cpp: one SpDatabaseWrapperImpl (one   *)
(* MYSQL session guarded by queryLock) used by several threads.  A call of *)
(* a data-access operation is a sequence of steps: build the statement,    *)
(* lock, mysql_query, mysql_store_result, MysqlResult constructor, unlock, *)
(* then the caller reads the MysqlResult and returns or throws.            *)
(*                                                                         *)
(* Strings assembled with << are sequences of their fragments.  A cell of  *)
(* a result set (a MYSQL_ROW entry) is a record: isNull for the null       *)
(* pointer, otherwise v is the text; the decimal text of an integer        *)
(* column is written as the integer it denotes.                            *)
(***************************************************************************)
EXTENDS Integers, Sequences, FiniteSets, TLC

\* ---------------------------------------------------------------- bounds
NumThreads == 2
MaxCalls == 2
MaxTime == 2
\* the width of int, scaled down
IntBits == 8
\* the largest result set handed to a caller of MysqlResult
MaxRows == 2
MaxColumns == 2

Threads == 1..NumThreads
\* One name for each thread, so that all threads can create users at once.
NameList == <<"alice", "bob", "carol", "dave">>
Names == {NameList[i] : i \in 1..NumThreads}
CreationIps == {"", "1.2.3.4"}
BanIps == {"10.0.0.1"}
UserIdArgs == {1}
UserIps == {"1.2.3.4"}
\* the ids the timestamps of a user are updated by: one more than the seed has
UpdateIdArgs == {1, 2}
SightingIps == UserIps \cup {"5.6.7.8"}
\* The names of the columns of a result handed to a caller, and the names
\* and indexes the caller asks for.
ColumnNames == {"a", "b"}
ColumnNameArgs == ColumnNames \cup {"zz"}
RowIndexArgs == -1..MaxRows
ColumnIndexArgs == -1..MaxColumns
\* -1 is the "omitted" sentinel of CreateUserBan / CreateIpBan
ExpirationArgs == {-1} \cup (1..MaxTime)

\* ---------------------------------------------------------------- cells
NullInt == [isNull |-> TRUE, v |-> 0]
NullStr == [isNull |-> TRUE, v |-> ""]
Cell(x) == [isNull |-> FALSE, v |-> x]

VARIABLES
    pc,        \* pc[t]: where thread t is in its call
    op,        \* op[t]: the operation thread t is calling, with its arguments
    phase,     \* phase[t]: which statement of the operation (1 or 2)
    owner,     \* queryLock: 0 when free, else the thread holding it
    db,        \* the tables of database sp
    sess,      \* the MYSQL session: pending result set, insert id
    res,       \* res[t]: the MysqlResult thread t got from ExecuteQuery
    exc,       \* exc[t]: what() of the exception in flight in thread t
    ret,       \* ret[t]: what the last call of thread t returned or threw
    locals,    \* locals[t]: what the operation read from its earlier statement
    unlocks,   \* unlocks[t]: queryLock.unlock() calls of the current ExecuteQuery
    lin,       \* lin[t]: what thread t's call and its statement saw (history):
               \* at is the database when the statement was submitted, perm
               \* whether the subject had a permanent ban when the call began
    calls,     \* number of calls started so far
    workload,  \* the calls the clients of the wrapper make (never changes)
    now,       \* the latest time NOW() has shown on the server
    mr         \* a MysqlResult in the hands of a caller, and its last access

vars ==
    <<pc, op, phase, owner, db, sess, res, exc, ret, locals, unlocks, lin, calls,
      workload, now, mr>>

\* ---------------------------------------------------------------- schema
\* Tables of database sp that the statements of the wrapper name.
UserColumns ==
    {"id", "name", "password", "is_male", "is_deleted", "creation_ip",
     "last_login_date", "last_loginserver_online_date",
     "last_gameserver_online_date", "auth", "default_character", "rank",
     "rank_record", "points", "code"}
UserBanColumns == {"id", "user_id", "expiration_date"}
IpBanColumns == {"id", "ip", "expiration_date"}
UserIpColumns == {"user_id", "ip", "last_show_up_date"}

Columns(table) ==
    CASE table = "user" -> UserColumns
      [] table = "userban" -> UserBanColumns
      [] table = "ipban" -> IpBanColumns
      [] table = "userip" -> UserIpColumns

\* What a timestamp column holds when no statement has assigned it.
DefaultTimestamp == 0

\* A row as the server stores it when the INSERT names none of its columns.
DefaultRow(table, id) ==
    CASE table = "user" ->
            [id |-> Cell(id), name |-> Cell(""), password |-> Cell(""),
             is_male |-> Cell(0), is_deleted |-> Cell(0),
             creation_ip |-> NullStr,
             last_login_date |-> Cell(DefaultTimestamp),
             last_loginserver_online_date |-> Cell(DefaultTimestamp),
             last_gameserver_online_date |-> Cell(DefaultTimestamp),
             auth |-> Cell(0),
             default_character |-> Cell(0), rank |-> Cell(0),
             rank_record |-> Cell(0), points |-> Cell(0), code |-> Cell(0)]
      [] table = "userban" ->
            [id |-> Cell(id), user_id |-> Cell(0), expiration_date |-> NullInt]
      [] table = "ipban" ->
            [id |-> Cell(id), ip |-> Cell(""), expiration_date |-> NullInt]
      [] table = "userip" ->
            [user_id |-> Cell(0), ip |-> Cell(""),
             last_show_up_date |-> Cell(DefaultTimestamp)]

\* A user row that exists before the wrapper is constructed.
SeedUser ==
    [id |-> Cell(1), name |-> Cell("alice"), password |-> Cell("S"),
     is_male |-> Cell(0), is_deleted |-> Cell(1), creation_ip |-> NullStr,
     last_login_date |-> Cell(DefaultTimestamp),
     last_loginserver_online_date |-> Cell(DefaultTimestamp),
     last_gameserver_online_date |-> Cell(DefaultTimestamp),
     auth |-> Cell(5), default_character |-> Cell(7), rank |-> Cell(2),
     rank_record |-> Cell(9), points |-> Cell(100), code |-> Cell(42)]

\* ---------------------------------------------------------------- statements
\* The statement texts the operations assemble, as terms: the verb, the
\* table, the assigned or selected columns and the WHERE condition.
Assign(col, val) == [col |-> col, val |-> val]

\* col = NOW(): the value is the server's time when the statement runs.
AssignNow(col) == [col |-> col, val |-> NullInt, now |-> TRUE]

\* Mutant of CreateUserStmt: a name that has its row is not refused
\* (ON DUPLICATE KEY UPDATE last_login_date = NOW()).
CreateUserStmtOnDuplicate(name, password, isMale, creationIp) ==
    [verb |-> "UPSERT", table |-> "user",
     set |-> <<Assign("name", Cell(name))>>,
     update |-> <<AssignNow("last_login_date")>>]

CreateUserStmt(name, password, isMale, creationIp) ==
    [verb |-> "INSERT", table |-> "user",
     set |-> <<Assign("name", Cell(name)), Assign("password", Cell(password)),
               Assign("is_male", Cell(IF isMale THEN 1 ELSE 0))>>
             \o (IF creationIp = ""
                    THEN <<Assign("creation_ip", Cell(creationIp))>>
                    ELSE <<>>)]

GetUserIdStmt(userName) ==
    [verb |-> "SELECT", table |-> "user", cols |-> <<"id">>,
     whereCol |-> "name", whereVal |-> userName]

LoginInfoStmt(userId) ==
    [verb |-> "SELECT", table |-> "user", cols |-> <<"password", "is_deleted">>,
     whereCol |-> "id", whereVal |-> userId]

\* (SELECT NULL .. WHERE key AND expiration_date IS NULL) UNION
\* (SELECT UNIX_TIMESTAMP(expiration_date) .. WHERE key AND expiration_date
\*  IS NOT NULL ORDER BY expiration_date_unix DESC) LIMIT 1
BanStmt(table, keyCol, keyVal) ==
    [verb |-> "SELECT_BAN", table |-> table, cols |-> <<"expiration_date_unix">>,
     whereCol |-> keyCol, whereVal |-> keyVal]

CreateUserBanStmt(userId, banExpirationDate) ==
    [verb |-> "INSERT", table |-> "userban",
     set |-> <<Assign("user_id", Cell(userId))>>
             \o (IF banExpirationDate # -1
                    THEN <<Assign("expiration_date", Cell(banExpirationDate))>>
                    ELSE <<>>)]

\* Mutant of CreateIpBanStmt: the bans of the address are rewritten instead of
\* a ban being added.
CreateIpBanStmtRenew(ip, banExpirationDate) ==
    [verb |-> "UPDATE", table |-> "ipban",
     set |-> <<Assign("expiration_date",
                      IF banExpirationDate # -1 THEN Cell(banExpirationDate)
                                                ELSE NullInt)>>,
     whereCol |-> "ip", whereVal |-> ip]

CreateIpBanStmt(ip, banExpirationDate) ==
    [verb |-> "INSERT", table |-> "ipban",
     set |-> <<Assign("ip", Cell(ip))>>
             \o (IF banExpirationDate # -1
                    THEN <<Assign("expiration_date", Cell(banExpirationDate))>>
                    ELSE <<>>)]

\* Mutant of CreateOrUpdateUserIpStmt: nothing is updated on a duplicate key.
CreateOrUpdateUserIpStmtNoTouch(userId, ip) ==
    [verb |-> "UPSERT", table |-> "userip",
     set |-> <<Assign("user_id", Cell(userId)), Assign("ip", Cell(ip))>>,
     update |-> <<>>]

\* INSERT INTO userip SET user_id, ip ON DUPLICATE KEY UPDATE
\* last_show_up_date = NOW()
CreateOrUpdateUserIpStmt(userId, ip) ==
    [verb |-> "UPSERT", table |-> "userip",
     set |-> <<Assign("user_id", Cell(userId)), Assign("ip", Cell(ip))>>,
     update |-> <<AssignNow("last_show_up_date")>>]

\* UPDATE user SET col = NOW() WHERE id = userId
UpdateUserStmt(col, userId) ==
    [verb |-> "UPDATE", table |-> "user", set |-> <<AssignNow(col)>>,
     whereCol |-> "id", whereVal |-> userId]

UpdateUserLastLoginDateStmt(userId) ==
    UpdateUserStmt("last_login_date", userId)

\* Mutant of UpdateUserLastLoginServerOnlineDateStmt: another column is set.
UpdateUserLastLoginServerOnlineDateStmtOtherColumn(userId) ==
    UpdateUserStmt("last_login_date", userId)

UpdateUserLastLoginServerOnlineDateStmt(userId) ==
    UpdateUserStmt("last_loginserver_online_date", userId)

UpdateUserLastGameServerOnlineDateStmt(userId) ==
    UpdateUserStmt("last_gameserver_online_date", userId)

PostLoginColumns ==
    <<"is_male", "auth", "default_character", "rank", "rank_record", "points",
      "code">>

PostLoginStmt(userId) ==
    [verb |-> "SELECT", table |-> "user", cols |-> PostLoginColumns,
     whereCol |-> "user_id", whereVal |-> userId]

\* ---------------------------------------------------------------- server
\* What the MySQL server does with a statement of the wrapper.
SeqRange(q) == {q[i] : i \in DOMAIN q}

SetMax(S) == CHOOSE m \in S : \A x \in S : x <= m

MatchRows(rows, col, val) ==
    SelectSeq(rows, LAMBDA r : ~r[col].isNull /\ r[col].v = val)

Project(row, cols) == [i \in DOMAIN cols |-> row[cols[i]]]

ProjectAll(rows, cols) == [k \in DOMAIN rows |-> Project(rows[k], cols)]

\* AUTO_INCREMENT: one more than the largest id of the table.
NextId(rows) ==
    IF rows = <<>> THEN 1 ELSE 1 + SetMax({rows[k].id.v : k \in DOMAIN rows})

NamedColumns(s) ==
    CASE s.verb = "INSERT" -> {s.set[i].col : i \in DOMAIN s.set}
      [] s.verb = "UPSERT" ->
            {s.set[i].col : i \in DOMAIN s.set}
            \cup {s.update[i].col : i \in DOMAIN s.update}
      [] s.verb = "UPDATE" -> {s.set[i].col : i \in DOMAIN s.set} \cup {s.whereCol}
      [] s.verb = "SELECT" -> SeqRange(s.cols) \cup {s.whereCol}
      [] s.verb = "SELECT_BAN" -> {s.whereCol, "expiration_date"}

\* The assignments of a statement with NOW() replaced by the time n.
AssignsAt(set, n) ==
    [i \in DOMAIN set |->
        IF "now" \in DOMAIN set[i] THEN Assign(set[i].col, Cell(n)) ELSE set[i]]

UsesNow(s) == s.verb \in {"UPSERT", "UPDATE"}

AtTime(s, n) ==
    CASE s.verb = "UPSERT" ->
            [s EXCEPT !.set = AssignsAt(s.set, n), !.update = AssignsAt(s.update, n)]
      [] s.verb = "UPDATE" -> [s EXCEPT !.set = AssignsAt(s.set, n)]
      [] OTHER -> s

\* The row with the columns of set assigned.
SetColumns(row, set) ==
    [c \in DOMAIN row |->
        IF \E i \in DOMAIN set : set[i].col = c
            THEN set[CHOOSE i \in DOMAIN set : set[i].col = c].val
            ELSE row[c]]

\* userip has the unique key (user_id, ip), the columns the upsert inserts.
KeyMatch(row, set) == \A i \in DOMAIN set : row[set[i].col] = set[i].val

NewRow(table, id, set) ==
    LET dflt == DefaultRow(table, id)
    IN  [c \in DOMAIN dflt |->
            IF \E i \in DOMAIN set : set[i].col = c
                THEN set[CHOOSE i \in DOMAIN set : set[i].col = c].val
                ELSE dflt[c]]

\* user.name is a unique key.
DuplicateKey(d, s) ==
    /\ s.verb = "INSERT"
    /\ s.table = "user"
    /\ \E i \in DOMAIN s.set :
          /\ s.set[i].col = "name"
          /\ MatchRows(d.user, "name", s.set[i].val.v) # <<>>

ErrUnknownColumn == "Unknown column"
ErrDuplicate == "Duplicate entry"
ErrLockWait == "Lock wait timeout exceeded; try restarting transaction"
ErrLostOnRead == "Lost connection to MySQL server during query"

Outcome(err, d, hasResult, fields, rows, insertId) ==
    [err |-> err, db |-> d, hasResult |-> hasResult, fields |-> fields,
     rows |-> rows, insertId |-> insertId]

\* The rows the ban statement may return.  The first SELECT of the UNION
\* yields one NULL row when a permanent ban exists (UNION removes the
\* duplicates), the second the distinct expirations of the timed bans.  The
\* ORDER BY stands inside the parentheses of the second SELECT, without a
\* LIMIT of its own: the server drops such an ORDER BY, so the rows of the
\* second SELECT come in whatever order the server reads them, and LIMIT 1
\* keeps the first row of the UNION.
BanRows(rows) ==
    LET perm  == {k \in DOMAIN rows : rows[k].expiration_date.isNull}
        timed == {rows[k].expiration_date.v :
                     k \in {j \in DOMAIN rows : ~rows[j].expiration_date.isNull}}
    IN  IF perm # {} THEN {<< <<NullInt>> >>}
        ELSE IF timed # {} THEN {<< <<Cell(e)>> >> : e \in timed}
        ELSE {<<>>}

DbExec(d, s) ==
    IF ~(NamedColumns(s) \subseteq Columns(s.table))
        THEN {Outcome(ErrUnknownColumn, d, FALSE, <<>>, <<>>, 0)}
    ELSE IF s.verb = "INSERT"
        THEN IF DuplicateKey(d, s)
                THEN {Outcome(ErrDuplicate, d, FALSE, <<>>, <<>>, 0)}
                ELSE LET id == NextId(d[s.table])
                     IN  {Outcome("",
                            [d EXCEPT ![s.table] =
                                Append(@, NewRow(s.table, id, s.set))],
                            FALSE, <<>>, <<>>, id)}
    ELSE IF s.verb = "UPSERT"
        THEN IF \E k \in DOMAIN d[s.table] : KeyMatch(d[s.table][k], s.set)
                THEN {Outcome("",
                        [d EXCEPT ![s.table] =
                            [k \in DOMAIN d[s.table] |->
                                IF KeyMatch(d[s.table][k], s.set)
                                    THEN SetColumns(d[s.table][k], s.update)
                                    ELSE d[s.table][k]]],
                        FALSE, <<>>, <<>>, 0)}
                ELSE {Outcome("",
                        [d EXCEPT ![s.table] = Append(@, NewRow(s.table, 0, s.set))],
                        FALSE, <<>>, <<>>, 0)}
    ELSE IF s.verb = "UPDATE"
        THEN {Outcome("",
                [d EXCEPT ![s.table] =
                    [k \in DOMAIN d[s.table] |->
                        IF /\ ~d[s.table][k][s.whereCol].isNull
                           /\ d[s.table][k][s.whereCol].v = s.whereVal
                            THEN SetColumns(d[s.table][k], s.set)
                            ELSE d[s.table][k]]],
                FALSE, <<>>, <<>>, 0)}
    ELSE IF s.verb = "SELECT"
        THEN {Outcome("", d, TRUE, s.cols,
                ProjectAll(MatchRows(d[s.table], s.whereCol, s.whereVal), s.cols),
                0)}
    ELSE {Outcome("", d, TRUE, s.cols, rs, 0) :
            rs \in BanRows(MatchRows(d[s.table], s.whereCol, s.whereVal))}

\* ---------------------------------------------------------------- MysqlValue
\* The outcome of a call that may throw: e is what() of the exception (<<>>
\* when none was thrown), v the value returned.
Ok(v) == [e |-> <<>>, v |-> v]
Throw(msg, v) == [e |-> <<msg>>, v |-> v]

IntMax == 2 ^ (IntBits - 1) - 1
IntMin == -(2 ^ (IntBits - 1))

\* atoi on the decimal text of a cell.  In the range of int it yields the
\* number the text denotes.  Outside it the behaviour is undefined: the
\* libraries either stop at the nearest bound or keep the low bits.
AtoiModes == {"saturate", "wrap"}

Atoi(text, mode) ==
    IF IntMin <= text /\ text <= IntMax THEN text
    ELSE IF mode = "saturate" THEN (IF text > IntMax THEN IntMax ELSE IntMin)
    ELSE ((text - IntMin) % (2 ^ IntBits)) + IntMin

AsString(c) ==
    IF c.isNull
        THEN Throw("A null MySQL value cannot be converted to string.", "")
        ELSE Ok(c.v)

AsInt(c, mode) ==
    IF c.isNull
        THEN Throw("A null MySQL value cannot be converted to int.", 0)
        ELSE Ok(Atoi(c.v, mode))

\* Mutant of AsLongLongInt: no test for NULL.
AsLongLongIntUnchecked(c) == Ok(c.v)

\* boost::lexical_cast<long long int>: the number the text denotes.
AsLongLongInt(c) ==
    IF c.isNull
        THEN Throw("A null MySQL value cannot be converted to int.", 0)
        ELSE Ok(c.v)

AsBool(c, mode) ==
    IF c.isNull
        THEN Throw("A null MySQL value cannot be converted to bool.", FALSE)
        ELSE Ok(AsInt(c, mode).v # 0)

\* ---------------------------------------------------------------- MysqlResult
\* Mutant of FetchRow: rows pulled from the session (as with mysql_use_result)
\* instead of from the result's own stored copy.
FetchRowUnbuffered(r, k) ==
    IF k + 1 \in DOMAIN sess.rows
        THEN sess.rows[k + 1]
        ELSE [i \in DOMAIN r.fields |-> NullInt]

\* mysql_fetch_row on the MYSQL_RES the result owns, whose cursor stands
\* before row k of the stored set.
FetchRow(r, k) == r.data[k + 1]

\* A MysqlResult: res is isNull, fields and data (the stored MYSQL_RES) with
\* cursor, the number of rows mysql_fetch_row has handed out.
MysqlResultCtor(raw, insertId) ==
    IF raw.isNull
        THEN [isNull |-> TRUE, fields |-> <<>>, data |-> <<>>, cursor |-> 0,
              rowCount |-> 0, columnCount |-> 0, columnNames |-> <<>>,
              fetchedRows |-> <<>>, autoGeneratedId |-> insertId]
        ELSE [isNull |-> FALSE, fields |-> raw.fields, data |-> raw.data,
              cursor |-> 0, rowCount |-> Len(raw.data),
              columnCount |-> Len(raw.fields), columnNames |-> <<>>,
              fetchedRows |-> <<>>, autoGeneratedId |-> insertId]

GetRowCount(r) ==
    IF r.isNull
        THEN Throw("Cannot retrieve the row count because the result is null.", 0)
        ELSE Ok(r.rowCount)

\* Mutant of GetAutoGeneratedId: mysql_insert_id asked when the caller reads
\* the id, after the lock is gone, instead of in the constructor.
GetAutoGeneratedIdLate(r) == sess.insertId

GetAutoGeneratedId(r) == r.autoGeneratedId

\* Zero-based index of the first element of q equal to x, Len(q) when none is.
StdFind(q, x) ==
    IF \E i \in DOMAIN q : q[i] = x
        THEN (CHOOSE i \in DOMAIN q : q[i] = x /\ \A j \in 1..(i - 1) : q[j] # x) - 1
        ELSE Len(q)

\* The tail of FindColumnIndex: names is columnNames after the branch that
\* built or kept it, columnIndex the index that branch computed.
FindColumnIndexCheck(names, columnIndex) ==
    IF columnIndex = -1 \/ columnIndex = Len(names)
        THEN [e |-> <<"Column name not found.">>, v |-> 0, columnNames |-> names]
        ELSE [e |-> <<>>, v |-> columnIndex, columnNames |-> names]

\* Mutant of FirstFieldNamed: the loop without "columnIndex == -1 &&", which
\* ends with the last field of that name.
LastFieldNamed(names, columnName) ==
    IF \E i \in DOMAIN names : names[i] = columnName
        THEN (CHOOSE i \in DOMAIN names :
                names[i] = columnName /\ \A j \in (i + 1)..Len(names) : names[j] # columnName) - 1
        ELSE -1

\* The loop over mysql_fetch_fields: the index of the first field of that
\* name, -1 when there is none.
FirstFieldNamed(names, columnName) ==
    IF \E i \in DOMAIN names : names[i] = columnName
        THEN StdFind(names, columnName)
        ELSE -1

\* columnNames is the cache of the result; the outcome carries the new cache.
FindColumnIndex(r, columnNames, columnName) ==
    IF r.isNull
        THEN [e |-> <<"Cannot retrieve the name of a column because the result is null.">>,
              v |-> 0, columnNames |-> columnNames]
    ELSE IF r.columnCount = 0
        THEN [e |-> <<"Cannot retrieve the name of a column because there are no columns.">>,
              v |-> 0, columnNames |-> columnNames]
    ELSE IF columnNames = <<>>
        THEN FindColumnIndexCheck(SubSeq(r.fields, 1, r.columnCount),
                FirstFieldNamed(SubSeq(r.fields, 1, r.columnCount), columnName))
    ELSE FindColumnIndexCheck(columnNames, StdFind(columnNames, columnName))

\* An access that threw msg and left the result as it was.
Threw(msg, r) == [e |-> <<msg>>, v |-> NullInt, r |-> r]

\* Mutant of FetchUpTo: the loop starts at row 0 of the set instead of at
\* the first row not fetched yet.
FetchUpToFromStart(r, rowIndex) ==
    IF rowIndex > Len(r.fetchedRows) - 1
        THEN [r EXCEPT
                !.fetchedRows = @ \o [j \in 1..(rowIndex + 1) |-> FetchRow(r, j - 1)],
                !.cursor = rowIndex + 1]
        ELSE r

\* The loop of GetValue: rows are fetched and pushed back until fetchedRows
\* holds row rowIndex.
FetchUpTo(r, rowIndex) ==
    IF rowIndex > Len(r.fetchedRows) - 1
        THEN [r EXCEPT
                !.fetchedRows =
                    @ \o [j \in 1..(rowIndex + 1 - Len(r.fetchedRows)) |->
                            FetchRow(r, r.cursor + j - 1)],
                !.cursor = @ + (rowIndex + 1 - Len(r.fetchedRows))]
        ELSE r

\* The outcome carries the result as the access left it.
GetValue(r, rowIndex, columnIndex) ==
    IF r.isNull
        THEN Threw("Cannot retrieve a value because the result is null.", r)
    ELSE IF r.columnCount = 0
        THEN Threw("Cannot retrieve a value because there are no columns.", r)
    ELSE IF r.rowCount = 0
        THEN Threw("Cannot retrieve a value because there are no rows.", r)
    ELSE IF columnIndex < 0
        THEN Threw("Column index cannot be negative.", r)
    ELSE IF rowIndex < 0
        THEN Threw("Row index cannot be negative.", r)
    ELSE IF columnIndex > r.columnCount - 1
        THEN Threw("Column index is out of range.", r)
    ELSE IF rowIndex > r.rowCount - 1
        THEN Threw("Row index is out of range.", r)
    ELSE [e |-> <<>>,
          v |-> FetchUpTo(r, rowIndex).fetchedRows[rowIndex + 1][columnIndex + 1],
          r |-> FetchUpTo(r, rowIndex)]

\* GetValue(rowIndex, columnIndex) once FindColumnIndex has answered with f.
GetValueAt(r, rowIndex, f) ==
    IF f.e # <<>>
        THEN [e |-> f.e, v |-> NullInt, r |-> r, columnNames |-> f.columnNames]
        ELSE [e |-> GetValue(r, rowIndex, f.v).e, v |-> GetValue(r, rowIndex, f.v).v,
              r |-> GetValue(r, rowIndex, f.v).r, columnNames |-> f.columnNames]

\* GetValue(int rowIndex, const char* columnName)
GetValueByRowAndName(r, columnNames, rowIndex, columnName) ==
    GetValueAt(r, rowIndex, FindColumnIndex(r, columnNames, columnName))

\* GetValue(const char* columnName): row 0, the column of that name.
GetValueByName(r, columnNames, columnName) ==
    GetValueAt(r, 0, FindColumnIndex(r, columnNames, columnName))

\* ---------------------------------------------------------------- operations
Call_(kind, name, male, ip, id, exp) ==
    [kind |-> kind, name |-> name, password |-> "H", male |-> male, ip |-> ip,
     id |-> id, exp |-> exp]

UpdateKinds ==
    {"UpdateUserLastLoginDate", "UpdateUserLastLoginServerOnlineDate",
     "UpdateUserLastGameServerOnlineDate"}

Operations ==
    {Call_("CreateUser", n, TRUE, ip, 0, 0) : n \in Names, ip \in CreationIps}
    \cup {Call_("GetUserId", n, FALSE, "", 0, 0) : n \in Names}
    \cup {Call_("GetUserLoginInfo", "", FALSE, "", id, 0) : id \in UserIdArgs}
    \cup {Call_("GetIpBanInfo", "", FALSE, ip, 0, 0) : ip \in BanIps}
    \cup {Call_("CreateUserBan", "", FALSE, "", id, e) :
            id \in UserIdArgs, e \in ExpirationArgs}
    \cup {Call_("CreateIpBan", "", FALSE, ip, 0, e) :
            ip \in BanIps, e \in ExpirationArgs}
    \cup {Call_("GetUserPostLoginInfo", "", FALSE, "", id, 0) : id \in UserIdArgs}
    \cup {Call_("CreateOrUpdateUserIp", "", FALSE, ip, id, 0) :
            ip \in UserIps, id \in UserIdArgs}
    \cup {Call_(kind, "", FALSE, "", id, 0) : kind \in UpdateKinds, id \in UserIdArgs}

\* The statement the operation hands to ExecuteQuery (GetUserLoginInfo: its
\* first, then its second).
Stmt(o, ph) ==
    CASE o.kind = "CreateUser" -> CreateUserStmt(o.name, o.password, o.male, o.ip)
      [] o.kind = "GetUserId" -> GetUserIdStmt(o.name)
      [] o.kind = "GetUserLoginInfo" ->
            IF ph = 1 THEN LoginInfoStmt(o.id) ELSE BanStmt("userban", "user_id", o.id)
      [] o.kind = "GetIpBanInfo" -> BanStmt("ipban", "ip", o.ip)
      [] o.kind = "CreateUserBan" -> CreateUserBanStmt(o.id, o.exp)
      [] o.kind = "CreateIpBan" -> CreateIpBanStmt(o.ip, o.exp)
      [] o.kind = "GetUserPostLoginInfo" -> PostLoginStmt(o.id)
      [] o.kind = "CreateOrUpdateUserIp" -> CreateOrUpdateUserIpStmt(o.id, o.ip)
      [] o.kind = "UpdateUserLastLoginDate" -> UpdateUserLastLoginDateStmt(o.id)
      [] o.kind = "UpdateUserLastLoginServerOnlineDate" ->
            UpdateUserLastLoginServerOnlineDateStmt(o.id)
      [] o.kind = "UpdateUserLastGameServerOnlineDate" ->
            UpdateUserLastGameServerOnlineDateStmt(o.id)

\* What the caller does with the MysqlResult: tag "return" with the value
\* returned, "throw" with what() of the exception, or "again" when the
\* operation goes on to its next statement (v: the locals read so far).
Return(v) == [tag |-> "return", e |-> <<>>, v |-> v]
Raise(e) == [tag |-> "throw", e |-> e, v |-> 0]
Again(v) == [tag |-> "again", e |-> <<>>, v |-> v]

\* Mutant of ReadUserId: the row count compared with 1 instead of 0.
ReadUserIdOffByOne(r, mode) ==
    IF GetRowCount(r).e # <<>> THEN Raise(GetRowCount(r).e)
    ELSE IF GetRowCount(r).v > 1 THEN Return(AsInt(GetValue(r, 0, 0).v, mode).v)
    ELSE Return(0)

ReadUserId(r, mode) ==
    LET n == GetRowCount(r)
        c == GetValue(r, 0, 0)
    IN  IF n.e # <<>> THEN Raise(n.e)
        ELSE IF n.v > 0
            THEN IF c.e # <<>> THEN Raise(c.e)
                 ELSE IF AsInt(c.v, mode).e # <<>> THEN Raise(AsInt(c.v, mode).e)
                 ELSE Return(AsInt(c.v, mode).v)
            ELSE Return(0)

ReadPasswordAndDeleted(r, mode) ==
    LET p == GetValueByName(r, <<>>, "user")
        d == GetValueByName(p.r, p.columnNames, "is_deleted")
    IN  IF p.e # <<>> THEN Raise(p.e)
        ELSE IF AsString(p.v).e # <<>> THEN Raise(AsString(p.v).e)
        ELSE IF d.e # <<>> THEN Raise(d.e)
        ELSE IF AsBool(d.v, mode).e # <<>> THEN Raise(AsBool(d.v, mode).e)
        ELSE Again([password_hash |-> AsString(p.v).v,
                    is_deleted |-> AsBool(d.v, mode).v])

\* banExpirationDate of GetUserLoginInfo and GetIpBanInfo.
ReadBanExpiration(r, mode) ==
    LET n == GetRowCount(r)
        c == GetValue(r, 0, 0)
    IN  IF n.e # <<>> THEN Raise(n.e)
        ELSE IF n.v = 0 THEN Return(0)
        ELSE IF c.e # <<>> THEN Raise(c.e)
        ELSE IF c.v.isNull THEN Return(-1)
        ELSE Return(AsInt(c.v, mode).v)

\* What the conversions make of the cells read: the exception of the first
\* read that threw, or the cells.  out[i] is the outcome of the i-th
\* GetValue(columnName), converted with AsBool (the first) or AsInt.
FirstThrow(out, err) ==
    IF \A i \in DOMAIN err : err[i] = <<>>
        THEN [e |-> <<>>, v |-> [i \in DOMAIN out |-> out[i].v]]
        ELSE [e |-> err[CHOOSE i \in DOMAIN err :
                          /\ err[i] # <<>>
                          /\ \A k \in 1..(i - 1) : err[k] = <<>>],
              v |-> <<>>]

Converted(out, mode) ==
    FirstThrow(out,
        [i \in DOMAIN out |->
            IF out[i].e # <<>> THEN out[i].e
            ELSE IF i = 1 THEN AsBool(out[i].v, mode).e
            ELSE AsInt(out[i].v, mode).e])

\* GetValue(columnName) for each name of cols in order.  The first call
\* builds the name cache and fetches row 0 (names, r1: the cache and the
\* result it leaves), the later ones scan the cache and read the fetched row.
ReadWithCache(r, r1, cols, names, mode) ==
    Converted([i \in DOMAIN cols |->
                 IF i = 1 THEN GetValueByName(r, <<>>, cols[i])
                          ELSE GetValueByName(r1, names, cols[i])], mode)

ReadNamed(r, cols, mode) ==
    ReadWithCache(r, GetValueByName(r, <<>>, cols[1]).r, cols,
                  FindColumnIndex(r, <<>>, cols[1]).columnNames, mode)

PostLoginInfo(g, mode) ==
    IF g.e # <<>> THEN Raise(g.e)
    ELSE Return([is_male |-> AsBool(g.v[1], mode).v, auth |-> AsInt(g.v[2], mode).v,
                 default_character |-> AsInt(g.v[3], mode).v,
                 rank |-> AsInt(g.v[4], mode).v,
                 rank_record |-> AsInt(g.v[5], mode).v,
                 points |-> AsInt(g.v[6], mode).v, code |-> AsInt(g.v[7], mode).v])

ReadPostLoginInfo(r, mode) ==
    PostLoginInfo(ReadNamed(r, PostLoginColumns, mode), mode)

\* mode: what atoi does with a number outside the range of int.
AfterExecute(o, ph, r, read, mode) ==
    CASE o.kind \in {"CreateUser", "CreateUserBan", "CreateIpBan"} ->
            Return(GetAutoGeneratedId(r))
      [] o.kind = "GetUserId" -> ReadUserId(r, mode)
      [] o.kind = "GetUserLoginInfo" ->
            IF ph = 1 THEN ReadPasswordAndDeleted(r, mode)
            ELSE LET b == ReadBanExpiration(r, mode)
                 IN  IF b.tag = "throw" THEN b
                     ELSE Return([password_hash |-> read.password_hash,
                                  is_deleted |-> read.is_deleted,
                                  ban_expiration |-> b.v])
      [] o.kind = "GetIpBanInfo" ->
            LET b == ReadBanExpiration(r, mode)
            IN  IF b.tag = "throw" THEN b
                ELSE Return([ban_expiration |-> b.v])
      [] o.kind = "GetUserPostLoginInfo" -> ReadPostLoginInfo(r, mode)
      [] o.kind = "CreateOrUpdateUserIp" \/ o.kind \in UpdateKinds -> Return(0)

\* ---------------------------------------------------------------- exceptions
StorePrefix == "An error occurred when storing a result from a MySQL query: "

\* what() of the copy made by "catch (exception ex)": the handler copies the
\* std::exception base of the runtime_error or logic_error thrown.  Whether
\* that copy still carries the message is the library's choice: it does where
\* std::exception itself stores the message, elsewhere what() is the base
\* class's own text.
GenericWhat == <<"std::exception">>

SlicedWhat(msg) == {msg, GenericWhat}

\* QueryException(query, cause): Init builds the description.
QueryException(query, cause) ==
    [query |-> query,
     description |->
        IF cause = <<>>
            THEN <<"An error occurred when processing a query.",
                   " The query string was: ", query>>
            ELSE <<"An error occurred when processing a query: ", cause,
                   " The query string was: ", query>>]

\* ---------------------------------------------------------------- state
NoResult ==
    [isNull |-> TRUE, fields |-> <<>>, data |-> <<>>, cursor |-> 0, rowCount |-> 0,
     columnCount |-> 0, columnNames |-> <<>>, fetchedRows |-> <<>>,
     autoGeneratedId |-> 0]

\* No access has been made to a MysqlResult.
NoAccess ==
    [r |-> NoResult, call |-> "none", row |-> 0, col |-> 0, name |-> "",
     e |-> <<>>, v |-> NullInt, high |-> -1, firstName |-> ""]

NoLocals == [password_hash |-> "", is_deleted |-> FALSE]

EmptyDb == [user |-> <<>>, userban |-> <<>>, ipban |-> <<>>, userip |-> <<>>]

\* A database that already holds a user and a timed ban of an address.
\* and an address that user has been seen from.
SeedDb ==
    [user |-> <<SeedUser>>,
     userban |-> <<>>,
     ipban |-> <<[id |-> Cell(1), ip |-> Cell("10.0.0.1"),
                  expiration_date |-> Cell(1)]>>,
     userip |-> <<[user_id |-> Cell(1), ip |-> Cell("1.2.3.4"),
                   last_show_up_date |-> Cell(1)]>>]

UserExists(d, id) == MatchRows(d.user, "id", id) # <<>>

UserRow(d, id) == MatchRows(d.user, "id", id)[1]

\* The subject of a ban lookup o has a ban row without expiration in d.
PermanentlyBanned(d, o) ==
    CASE o.kind = "GetUserLoginInfo" ->
            \E k \in DOMAIN d.userban :
                d.userban[k].user_id = Cell(o.id) /\ d.userban[k].expiration_date.isNull
      [] o.kind = "GetIpBanInfo" ->
            \E k \in DOMAIN d.ipban :
                d.ipban[k].ip = Cell(o.ip) /\ d.ipban[k].expiration_date.isNull
      [] OTHER -> FALSE

UserIdOf(d, name) ==
    LET m == MatchRows(d.user, "name", name)
    IN  IF m = <<>> THEN 0 ELSE m[1].id.v

\* The calls of clients that only create users and look their ids up.
UserCalls == {o \in Operations : o.kind \in {"CreateUser", "GetUserId"} /\ o.ip = ""}

\* One call of each operation of the wrapper.
EachKindCalls ==
    {o \in Operations :
        /\ o.name \in {"", "alice"}
        /\ o.kind = "CreateUser" => o.ip = ""
        /\ o.exp \in {0, -1}}

\* The calls of clients that create and look up one name: the second
\* CreateUser of the name fails at submission, and the result of GetUserId
\* can fail to be stored.
OneNameCalls == {o \in UserCalls : o.name = "alice"}

\* The calls of clients that report the addresses a user is seen from, and
\* look a name up.
UserIpCalls ==
    {Call_("CreateOrUpdateUserIp", "", FALSE, ip, id, 0) :
        ip \in SightingIps, id \in UserIdArgs}
    \cup {o \in OneNameCalls : o.kind = "GetUserId"}

\* The calls of clients that create a user, look a name up and update the
\* timestamps of users, of ids that exist and of ids that do not.
UpdateCalls ==
    {Call_(kind, "", FALSE, "", id, 0) : kind \in UpdateKinds, id \in UpdateIdArgs}
    \cup {Call_("CreateUser", "bob", TRUE, "", 0, 0),
          Call_("GetUserId", "alice", FALSE, "", 0, 0)}

\* The calls of clients that ban an address until a near time or until the
\* first time an int cannot hold, and look the address up.
FarExpirationArgs == {1, IntMax + 1}

FarBanCalls ==
    {Call_("CreateIpBan", "", FALSE, ip, 0, e) : ip \in BanIps, e \in FarExpirationArgs}
    \cup {Call_("GetIpBanInfo", "", FALSE, ip, 0, 0) : ip \in BanIps}

\* The calls of clients that read (GetUserId, GetUserLoginInfo, GetIpBanInfo)
\* and insert (CreateUser, CreateUserBan, CreateIpBan).
ReadInsertCalls ==
    {o \in EachKindCalls :
        o.kind \in {"GetUserId", "GetUserLoginInfo", "GetIpBanInfo", "CreateUser",
                    "CreateUserBan", "CreateIpBan"}}

\* The wrapper after construction, with clients that make the calls w.
Constructed(w) ==
    /\ workload = w
    /\ pc = [t \in Threads |-> "idle"]
    /\ op = [t \in Threads |-> Call_("none", "", FALSE, "", 0, 0)]
    /\ phase = [t \in Threads |-> 1]
    /\ owner = 0
    /\ sess = [hasResult |-> FALSE, fields |-> <<>>, rows |-> <<>>, insertId |-> 0]
    /\ res = [t \in Threads |-> NoResult]
    /\ exc = [t \in Threads |-> <<>>]
    /\ ret = [t \in Threads |-> [ok |-> TRUE, v |-> 0]]
    /\ locals = [t \in Threads |-> NoLocals]
    /\ unlocks = [t \in Threads |-> 0]
    /\ lin = [t \in Threads |->
                [pre |-> 0, rows |-> <<>>, subject |-> <<>>, at |-> EmptyDb,
                 perm |-> FALSE]]
    /\ calls = 0
    /\ now = 1

InitWith(w) ==
    /\ Constructed(w)
    /\ db \in {EmptyDb, SeedDb}
    /\ mr = NoAccess

Init == InitWith(Operations)

InitUsers == InitWith(UserCalls)

InitEachKind == InitWith(EachKindCalls)

InitReadInsert == InitWith(ReadInsertCalls)

InitOneName == InitWith(OneNameCalls)

InitUserIp == InitWith(UserIpCalls)

InitUpdate == InitWith(UpdateCalls)

\* No address is banned yet.
InitFarBan ==
    /\ Constructed(FarBanCalls)
    /\ db = EmptyDb
    /\ mr = NoAccess

\* ---------------------------------------------------------------- steps
\* The times NOW() may show when statement s runs: the clock does not go back.
Times(s) == IF UsesNow(s) THEN now..MaxTime ELSE {now}

\* A thread calls an operation of the wrapper.
Call(t) ==
    /\ pc[t] \in {"idle", "done"}
    /\ calls < MaxCalls
    /\ \E o \in workload :
          /\ op' = [op EXCEPT ![t] = o]
          /\ lin' = [lin EXCEPT ![t] =
                        [pre |-> IF o.kind = "GetUserId" THEN UserIdOf(db, o.name)
                                 ELSE IF UserExists(db, o.id) THEN o.id
                                 ELSE 0,
                         rows |-> <<>>, subject |-> <<>>, at |-> EmptyDb,
                         perm |-> PermanentlyBanned(db, o)]]
    /\ phase' = [phase EXCEPT ![t] = 1]
    /\ locals' = [locals EXCEPT ![t] = NoLocals]
    /\ exc' = [exc EXCEPT ![t] = <<>>]
    /\ pc' = [pc EXCEPT ![t] = "lock"]
    /\ calls' = calls + 1
    /\ UNCHANGED <<owner, db, sess, res, ret, unlocks, workload, now, mr>>

\* Mutant of Lock: the statement goes ahead without waiting for the mutex.
LockNoWait(t) ==
    /\ pc[t] = "lock"
    /\ owner' = t
    /\ unlocks' = [unlocks EXCEPT ![t] = 0]
    /\ pc' = [pc EXCEPT ![t] = "query"]
    /\ UNCHANGED <<op, phase, db, sess, res, exc, ret, locals, lin, calls, workload, now, mr>>

\* ExecuteQuery: queryLock.lock()
Lock(t) ==
    /\ pc[t] = "lock"
    /\ owner = 0
    /\ owner' = t
    /\ unlocks' = [unlocks EXCEPT ![t] = 0]
    /\ pc' = [pc EXCEPT ![t] = "query"]
    /\ UNCHANGED <<op, phase, db, sess, res, exc, ret, locals, lin, calls, workload, now, mr>>

\* ExecuteQueryUnsafe: mysql_query succeeds; the server has run the statement.
MysqlQueryOk(t) ==
    /\ pc[t] = "query"
    /\ \E n \in Times(Stmt(op[t], phase[t])) :
       \E out \in DbExec(db, AtTime(Stmt(op[t], phase[t]), n)) :
          /\ out.err = ""
          /\ now' = n
          /\ db' = out.db
          /\ sess' = [hasResult |-> out.hasResult, fields |-> out.fields,
                      rows |-> out.rows, insertId |-> out.insertId]
          /\ lin' = [lin EXCEPT ![t].rows = out.rows,
                                ![t].at = db,
                                ![t].subject =
                                    IF Stmt(op[t], phase[t]).verb = "SELECT_BAN"
                                        THEN MatchRows(db[Stmt(op[t], phase[t]).table],
                                                       Stmt(op[t], phase[t]).whereCol,
                                                       Stmt(op[t], phase[t]).whereVal)
                                        ELSE <<>>]
    /\ pc' = [pc EXCEPT ![t] = "store"]
    /\ UNCHANGED <<op, phase, owner, res, exc, ret, locals, unlocks, calls, workload, mr>>

\* Mutant of MysqlQueryFail: the throw without the unlock before it.
MysqlQueryFailNoUnlock(t) ==
    /\ pc[t] = "query"
    /\ \E err \in {ErrLockWait}
                   \cup {out.err : out \in DbExec(db, AtTime(Stmt(op[t], phase[t]), now))} :
          /\ err # ""
          /\ exc' = [exc EXCEPT ![t] = <<StorePrefix, err>>]
    /\ lin' = [lin EXCEPT ![t].at = db]
    /\ pc' = [pc EXCEPT ![t] = "catch"]
    /\ UNCHANGED <<op, phase, owner, db, sess, res, ret, locals, unlocks, calls, workload, now, mr>>

\* ExecuteQueryUnsafe: mysql_query fails (the statement is refused, or the
\* server reports an error of its own); unlock, throw runtime_error.
MysqlQueryFail(t) ==
    /\ pc[t] = "query"
    /\ \E err \in {ErrLockWait}
                   \cup {out.err : out \in DbExec(db, AtTime(Stmt(op[t], phase[t]), now))} :
          /\ err # ""
          /\ exc' = [exc EXCEPT ![t] = <<StorePrefix, err>>]
    /\ lin' = [lin EXCEPT ![t].at = db]
    /\ owner' = 0
    /\ unlocks' = [unlocks EXCEPT ![t] = @ + 1]
    /\ pc' = [pc EXCEPT ![t] = "catch"]
    /\ UNCHANGED <<op, phase, db, sess, res, ret, locals, calls, workload, now, mr>>

\* Mutant of StoreResultOk: the mutex is given up once the result is stored,
\* before the MysqlResult constructor asks for the insert id.
StoreResultOkUnlocked(t) ==
    /\ pc[t] = "store"
    /\ res' = [res EXCEPT ![t] =
                  [NoResult EXCEPT !.isNull = ~sess.hasResult,
                                   !.fields = sess.fields,
                                   !.data = sess.rows]]
    /\ owner' = 0
    /\ pc' = [pc EXCEPT ![t] = "ctor"]
    /\ UNCHANGED <<op, phase, db, sess, exc, ret, locals, unlocks, lin, calls, workload, now, mr>>

\* ExecuteQueryUnsafe: mysql_store_result copies the result set, if any.
StoreResultOk(t) ==
    /\ pc[t] = "store"
    /\ res' = [res EXCEPT ![t] =
                  [NoResult EXCEPT !.isNull = ~sess.hasResult,
                                   !.fields = sess.fields,
                                   !.data = sess.rows]]
    /\ pc' = [pc EXCEPT ![t] = "ctor"]
    /\ UNCHANGED <<op, phase, owner, db, sess, exc, ret, locals, unlocks, lin, calls, workload, now, mr>>

\* Mutant of StoreResultFail: the throw without the unlock before it.
StoreResultFailNoUnlock(t) ==
    /\ pc[t] = "store"
    /\ sess.hasResult
    /\ exc' = [exc EXCEPT ![t] = <<StorePrefix, ErrLostOnRead>>]
    /\ pc' = [pc EXCEPT ![t] = "catch"]
    /\ UNCHANGED <<op, phase, owner, db, sess, res, ret, locals, unlocks, lin, calls, workload, now, mr>>

\* ExecuteQueryUnsafe: mysql_errno is set after mysql_store_result; unlock,
\* throw runtime_error.
StoreResultFail(t) ==
    /\ pc[t] = "store"
    /\ sess.hasResult
    /\ exc' = [exc EXCEPT ![t] = <<StorePrefix, ErrLostOnRead>>]
    /\ owner' = 0
    /\ unlocks' = [unlocks EXCEPT ![t] = @ + 1]
    /\ pc' = [pc EXCEPT ![t] = "catch"]
    /\ UNCHANGED <<op, phase, db, sess, res, ret, locals, lin, calls, workload, now, mr>>

\* new MysqlResult(&mysql, res): mysql_insert_id, mysql_num_rows, mysql_num_fields
Ctor(t) ==
    /\ pc[t] = "ctor"
    /\ res' = [res EXCEPT ![t] = MysqlResultCtor(res[t], sess.insertId)]
    /\ pc' = [pc EXCEPT ![t] = "unlock"]
    /\ UNCHANGED <<op, phase, owner, db, sess, exc, ret, locals, unlocks, lin, calls, workload, now, mr>>

\* ExecuteQuery: queryLock.unlock(); return res
Unlock(t) ==
    /\ pc[t] = "unlock"
    /\ owner' = 0
    /\ unlocks' = [unlocks EXCEPT ![t] = @ + 1]
    /\ pc' = [pc EXCEPT ![t] = "read"]
    /\ UNCHANGED <<op, phase, db, sess, res, exc, ret, locals, lin, calls, workload, now, mr>>

\* The body of the operation's try block after ExecuteQuery returned.
Consume(t) ==
    /\ pc[t] = "read"
    /\ \E mode \in AtoiModes :
       LET a == AfterExecute(op[t], phase[t], res[t], locals[t], mode)
       IN  /\ pc' = [pc EXCEPT ![t] =
                        CASE a.tag = "return" -> "done"
                          [] a.tag = "throw" -> "catch"
                          [] a.tag = "again" -> "lock"]
           /\ ret' = IF a.tag = "return"
                        THEN [ret EXCEPT ![t] = [ok |-> TRUE, v |-> a.v]]
                        ELSE ret
           /\ exc' = [exc EXCEPT ![t] = a.e]
           /\ locals' = IF a.tag = "again" THEN [locals EXCEPT ![t] = a.v] ELSE locals
           /\ phase' = IF a.tag = "again" THEN [phase EXCEPT ![t] = 2] ELSE phase
    /\ res' = [res EXCEPT ![t] = NoResult]
    /\ UNCHANGED <<op, owner, db, sess, unlocks, lin, calls, workload, now, mr>>

\* catch (exception ex) { throw QueryException(query, ex.what()); }
Catch(t) ==
    /\ pc[t] = "catch"
    /\ \E what \in SlicedWhat(exc[t]) :
          ret' = [ret EXCEPT ![t] =
                    [ok |-> FALSE,
                     failure |-> QueryException(Stmt(op[t], phase[t]), what)]]
    /\ res' = [res EXCEPT ![t] = NoResult]
    /\ pc' = [pc EXCEPT ![t] = "done"]
    /\ UNCHANGED <<op, phase, owner, db, sess, exc, locals, unlocks, lin, calls, workload, now, mr>>

Next ==
    \E t \in Threads :
        \/ Call(t)
        \/ Lock(t)
        \/ MysqlQueryOk(t)
        \/ MysqlQueryFail(t)
        \/ StoreResultOk(t)
        \/ StoreResultFail(t)
        \/ Ctor(t)
        \/ Unlock(t)
        \/ Consume(t)
        \/ Catch(t)

Spec == Init /\ [][Next]_vars

\* The same wrapper under clients that only create and look up users.
SpecUsers == InitUsers /\ [][Next]_vars

\* The same wrapper under clients that call each operation with one choice
\* of arguments.
SpecEachKind == InitEachKind /\ [][Next]_vars

\* A thread that has called an operation goes on whenever it can: the
\* scheduler runs every thread that is ready, and a thread waiting for
\* queryLock gets it once it stays free.  Clients need not call.
Step(t) ==
    \/ Lock(t)
    \/ MysqlQueryOk(t)
    \/ MysqlQueryFail(t)
    \/ StoreResultOk(t)
    \/ StoreResultFail(t)
    \/ Ctor(t)
    \/ Unlock(t)
    \/ Consume(t)
    \/ Catch(t)

SpecFair ==
    /\ InitOneName
    /\ [][Next]_vars
    /\ \A t \in Threads : WF_vars(Step(t))

\* The same wrapper under clients that report sightings.
SpecUserIp == InitUserIp /\ [][Next]_vars

\* The same wrapper under clients that read and insert.
SpecReadInsert == InitReadInsert /\ [][Next]_vars

\* The wrapper used to ban addresses for long.
SpecFarBan == InitFarBan /\ [][Next]_vars

\* The wrapper used to keep the timestamps of users.
SpecUpdate == InitUpdate /\ [][Next]_vars

\* ---------------------------------------------------------------- MysqlResult in use
\* The result sets a caller can hold: none (a statement without result set),
\* or up to MaxRows rows of 1..MaxColumns columns, whose names may repeat.
\* Every cell has a value of its own, but for at most one NULL cell.
StoredData(rowCount, columnCount, nullAt) ==
    [k \in 1..rowCount |->
        [j \in 1..columnCount |->
            IF (k - 1) * columnCount + j = nullAt
                THEN NullInt
                ELSE Cell((k - 1) * columnCount + j)]]

StoredResults ==
    {[isNull |-> TRUE, fields |-> <<>>, data |-> <<>>]}
    \cup {[isNull |-> FALSE, fields |-> f, data |-> StoredData(n, Len(f), nullAt)] :
            f \in UNION {[1..c -> ColumnNames] : c \in 1..MaxColumns},
            n \in 0..MaxRows,
            nullAt \in 0..(MaxRows * MaxColumns)}

\* A MysqlResult is constructed over a stored result and handed to a caller.
InitResult ==
    /\ Constructed({})
    /\ db = EmptyDb
    /\ mr \in {[NoAccess EXCEPT !.r = MysqlResultCtor(raw, 0)] : raw \in StoredResults}

wrapperVars ==
    <<pc, op, phase, owner, db, sess, res, exc, ret, locals, unlocks, lin, calls,
      workload, now>>

\* The overloads of GetValue that take indexes, and those that take a name.
ByIndex == {"GetValue(int, int)", "GetValue(int)"}
ByName == {"GetValue(int, const char*)", "GetValue(const char*)"}

\* The caller's result after access call with outcome g, which left the
\* cache of names as names.
Accessed(call, rowIndex, columnIndex, columnName, g, names) ==
    [r |-> [g.r EXCEPT !.columnNames = names],
     call |-> call, row |-> rowIndex, col |-> columnIndex, name |-> columnName,
     e |-> g.e, v |-> g.v,
     high |-> IF g.e = <<>> /\ rowIndex > mr.high THEN rowIndex ELSE mr.high,
     firstName |-> IF mr.firstName = "" THEN columnName ELSE mr.firstName]

\* GetValue(int rowIndex, int columnIndex)
GetValueByIndexes ==
    /\ \E rowIndex \in RowIndexArgs, columnIndex \in ColumnIndexArgs :
          mr' = Accessed("GetValue(int, int)", rowIndex, columnIndex, "",
                         GetValue(mr.r, rowIndex, columnIndex), mr.r.columnNames)
    /\ UNCHANGED wrapperVars

\* GetValue(int columnIndex)
GetValueByColumn ==
    /\ \E columnIndex \in ColumnIndexArgs :
          mr' = Accessed("GetValue(int)", 0, columnIndex, "",
                         GetValue(mr.r, 0, columnIndex), mr.r.columnNames)
    /\ UNCHANGED wrapperVars

\* GetValue(int rowIndex, const char* columnName)
GetValueByRowAndColumnName ==
    /\ \E rowIndex \in RowIndexArgs, columnName \in ColumnNameArgs :
          mr' = Accessed("GetValue(int, const char*)", rowIndex, -1, columnName,
                    GetValueByRowAndName(mr.r, mr.r.columnNames, rowIndex, columnName),
                    GetValueByRowAndName(mr.r, mr.r.columnNames, rowIndex,
                                         columnName).columnNames)
    /\ UNCHANGED wrapperVars

\* GetValue(const char* columnName)
GetValueByColumnName ==
    /\ \E columnName \in ColumnNameArgs :
          mr' = Accessed("GetValue(const char*)", 0, -1, columnName,
                    GetValueByName(mr.r, mr.r.columnNames, columnName),
                    GetValueByName(mr.r, mr.r.columnNames, columnName).columnNames)
    /\ UNCHANGED wrapperVars

\* The conversions of MysqlValue.
Conversions == {"AsString", "AsInt", "AsLongLongInt", "AsBool"}

Conversion(conv, c, mode) ==
    CASE conv = "AsString" -> AsString(c).e
      [] conv = "AsInt" -> AsInt(c, mode).e
      [] conv = "AsLongLongInt" -> AsLongLongInt(c).e
      [] conv = "AsBool" -> AsBool(c, mode).e

\* The caller converts the MysqlValue the last access returned.
Convert ==
    /\ mr.call \in ByIndex \cup ByName
    /\ mr.e = <<>>
    /\ \E conv \in Conversions, mode \in AtoiModes :
          mr' = [mr EXCEPT !.call = conv, !.e = Conversion(conv, mr.v, mode)]
    /\ UNCHANGED wrapperVars

NextResult ==
    \/ GetValueByIndexes
    \/ GetValueByColumn
    \/ GetValueByRowAndColumnName
    \/ GetValueByColumnName
    \/ Convert

\* A caller reads a MysqlResult.
SpecResult == InitResult /\ [][NextResult]_vars

\* ---------------------------------------------------------------- properties
\* Thread t is between the submission of its statement and the end of the
\* MysqlResult constructor.
InFlight(t) == pc[t] \in {"query", "store", "ctor"}

\* The last call of thread t was operation kind and returned a value.
Returned(t, kind) == pc[t] = "done" /\ op[t].kind = kind /\ ret[t].ok

\* The last call of thread t failed because the server or the connection
\* failed, not because of the statement or of the way its result was read.
EnvFailure(t) ==
    /\ Len(exc[t]) = 2
    /\ exc[t][2] \in {ErrLockWait, ErrLostOnRead}

\* C1: at most one thread is between mysql_query and the end of the
\* MysqlResult constructor (statement in flight, result being stored, insert
\* id being read).
C1_OneStatementInFlight ==
    \A t1, t2 \in Threads : InFlight(t1) /\ InFlight(t2) => t1 = t2

\* C1 witness: one thread is storing its result while another waits for the lock.
C1_Witness ==
    \E t1, t2 \in Threads : t1 # t2 /\ pc[t1] = "store" /\ pc[t2] = "lock"

\* C2: every unlock is done by the thread that holds the mutex, and a thread
\* that leaves ExecuteQuery (by return, by the throw after mysql_query or by
\* the throw after mysql_store_result) has unlocked exactly once and does not
\* hold the mutex.
C2_ReleasedOnceOnEveryExit ==
    [][\A t \in Threads :
          /\ (unlocks'[t] = unlocks[t] + 1) => (owner = t /\ owner' = 0)
          /\ (pc[t] \in {"query", "store", "unlock"} /\ pc'[t] \in {"read", "catch"})
                => (owner' # t /\ unlocks'[t] = 1)]_vars

\* C2 witness: a thread has left ExecuteQuery by the throw after
\* mysql_store_result.
C2_Witness ==
    \E t \in Threads :
        /\ pc[t] = "catch"
        /\ exc[t] = <<StorePrefix, ErrLostOnRead>>
        /\ unlocks[t] = 1
        /\ owner # t

\* C3: the insert id is read under the lock of the caller's own insert and is
\* the id of the caller's row; the ids CreateUser returns are positive, are
\* the ids of the rows holding the callers' names, and differ for different
\* names.
C3_InsertIdIsolation ==
    /\ \A t \in Threads :
          (pc[t] = "ctor" /\ op[t].kind = "CreateUser")
             => (owner = t /\ sess.insertId = UserIdOf(db, op[t].name))
    /\ \A t \in Threads :
          Returned(t, "CreateUser")
             => (ret[t].v > 0 /\ ret[t].v = UserIdOf(db, op[t].name))
    /\ \A t1, t2 \in Threads :
          (/\ t1 # t2
           /\ Returned(t1, "CreateUser")
           /\ Returned(t2, "CreateUser")
           /\ op[t1].name # op[t2].name)
             => ret[t1].v # ret[t2].v

\* C3 witness: two threads have created users of different names.
C3_Witness ==
    \E t1, t2 \in Threads :
        /\ t1 # t2
        /\ Returned(t1, "CreateUser")
        /\ Returned(t2, "CreateUser")
        /\ op[t1].name # op[t2].name

\* The ban resolution of the specification over the ban rows of a subject.
BanResolution(rows) ==
    IF \E k \in DOMAIN rows : rows[k].expiration_date.isNull THEN -1
    ELSE IF rows # <<>>
        THEN SetMax({rows[k].expiration_date.v : k \in DOMAIN rows})
    ELSE 0

\* C4: the ban expiration returned is -1 if a row of the subject has a NULL
\* expiration, else the largest expiration of its rows, else 0.
C4_BanResolutionIsMax ==
    \A t \in Threads :
        (Returned(t, "GetIpBanInfo") \/ Returned(t, "GetUserLoginInfo"))
            => ret[t].v.ban_expiration = BanResolution(lin[t].subject)

\* C5: GetUserId returns the id of the row of that name, which is the id
\* CreateUser returned for it, and 0 when there is no such row; a name that
\* had its row when GetUserId was called is found.
C5_CreateLookupRoundTrip ==
    /\ \A t \in Threads :
          Returned(t, "GetUserId")
             => /\ lin[t].pre # 0 => ret[t].v = lin[t].pre
                /\ ret[t].v # 0 => (ret[t].v > 0 /\ ret[t].v = UserIdOf(db, op[t].name))
                /\ UserIdOf(db, op[t].name) = 0 => ret[t].v = 0
    /\ \A t1, t2 \in Threads :
          (/\ Returned(t1, "CreateUser")
           /\ Returned(t2, "GetUserId")
           /\ op[t1].name = op[t2].name
           /\ ret[t2].v # 0)
             => ret[t2].v = ret[t1].v

\* C5 witness: a name created by one thread has been looked up by another
\* after its row existed.
C5_Witness ==
    \E t1, t2 \in Threads :
        /\ Returned(t1, "CreateUser")
        /\ Returned(t2, "GetUserId")
        /\ op[t1].name = op[t2].name
        /\ lin[t2].pre # 0
        /\ ret[t2].v = ret[t1].v

\* C6: GetUserLoginInfo of an existing user returns (unless the server or the
\* connection fails) the password and the is_deleted flag of that user's row.
C6_LoginInfoOfExistingUser ==
    \A t \in Threads :
        (/\ pc[t] = "done"
         /\ op[t].kind = "GetUserLoginInfo"
         /\ lin[t].pre # 0
         /\ ~EnvFailure(t))
            => /\ ret[t].ok
               /\ ret[t].v.password_hash = UserRow(db, op[t].id).password.v
               /\ ret[t].v.is_deleted = (UserRow(db, op[t].id).is_deleted.v # 0)

\* C7: the row CreateUser inserted has the creation_ip given when one was
\* given; when it was empty the statement did not assign creation_ip.
C7_CreationIpSetIffGiven ==
    \A t \in Threads :
        Returned(t, "CreateUser")
            => IF op[t].ip # ""
                  THEN UserRow(db, ret[t].v).creation_ip = Cell(op[t].ip)
                  ELSE "creation_ip" \notin NamedColumns(Stmt(op[t], phase[t]))

\* C8: GetUserPostLoginInfo of an existing user returns (unless the server or
\* the connection fails) the seven fields of the row whose id is the argument.
C8_PostLoginInfoOfExistingUser ==
    \A t \in Threads :
        (/\ pc[t] = "done"
         /\ op[t].kind = "GetUserPostLoginInfo"
         /\ lin[t].pre # 0
         /\ ~EnvFailure(t))
            => /\ ret[t].ok
               /\ ret[t].v =
                    [is_male |-> UserRow(db, op[t].id).is_male.v # 0,
                     auth |-> UserRow(db, op[t].id).auth.v,
                     default_character |-> UserRow(db, op[t].id).default_character.v,
                     rank |-> UserRow(db, op[t].id).rank.v,
                     rank_record |-> UserRow(db, op[t].id).rank_record.v,
                     points |-> UserRow(db, op[t].id).points.v,
                     code |-> UserRow(db, op[t].id).code.v]

\* C9: the QueryException of a failed call carries the statement submitted
\* and, as its cause, the message of the exception that was thrown.
C9_FailureCarriesStatementAndCause ==
    \A t \in Threads :
        (pc[t] = "done" /\ ~ret[t].ok)
            => /\ ret[t].failure.query = Stmt(op[t], phase[t])
               /\ ret[t].failure.description[2] = exc[t]

\* C10 as claimed: while a thread still has to read the MysqlResult it was
\* handed, no other thread is inside ExecuteQuery with a statement.
C10_ConsumedBeforeNextExecute ==
    \A t1, t2 \in Threads :
        (t1 # t2 /\ pc[t1] = "read")
            => pc[t2] \notin {"query", "store", "ctor", "unlock"}

\* C10 as amended: the MysqlResult a caller reads after the unlock holds the
\* rows its own statement produced, whatever statements other threads have
\* run since.
C10_ResultIsOwnStoredCopy ==
    \A t \in Threads :
        (pc[t] = "read" /\ ~res[t].isNull)
            => /\ res[t].rowCount = Len(lin[t].rows)
               /\ \A k \in 0..(res[t].rowCount - 1) :
                     FetchRow(res[t], k) = lin[t].rows[k + 1]

\* C10 witness: a thread holds a MysqlResult with a row, not yet read, while
\* the statement of another thread has been run on the session.
C10_Witness ==
    \E t1, t2 \in Threads :
        /\ t1 # t2
        /\ pc[t1] = "read"
        /\ res[t1].rowCount > 0
        /\ pc[t2] \in {"store", "ctor"}

\* ---------------------------------------------------------------- C11
\* An operation run alone.  What the caller makes of statement ph of
\* operation o when the server answers it with out (read: the locals of the
\* earlier statement).
Alone(o, ph, out, read, mode) ==
    IF out.err # ""
        THEN Raise(<<StorePrefix, out.err>>)
        ELSE AfterExecute(o, ph,
                MysqlResultCtor([NoResult EXCEPT !.isNull = ~out.hasResult,
                                                 !.fields = out.fields,
                                                 !.data = out.rows],
                                out.insertId),
                read, mode)

\* The ways statement ph of o can end on database d.
AloneOn(o, ph, d, read) ==
    {Alone(o, ph, out, read, mode) :
        out \in DbExec(d, AtTime(Stmt(o, ph), now)), mode \in AtoiModes}

\* What the call hands back when statement ph ended as a.
Handed(o, ph, a) ==
    IF a.tag = "return"
        THEN {[ok |-> TRUE, v |-> a.v]}
        ELSE {[ok |-> FALSE, failure |-> QueryException(Stmt(o, ph), what)] :
                what \in SlicedWhat(a.e)}

\* Every outcome of operation o run alone on database d, the server and the
\* connection not failing.
Serial(o, d) ==
    UNION {IF a.tag = "again"
              THEN UNION {Handed(o, 2, b) : b \in AloneOn(o, 2, d, a.v)}
              ELSE Handed(o, 1, a) :
           a \in AloneOn(o, 1, d, NoLocals)}

C12_FailureLeavesWrapperUsable ==
    /\ [](\A t \in Threads : pc[t] \in {"catch", "read", "done", "idle"} => owner # t)
    /\ [](owner # 0 => pc[owner] \in {"query", "store", "ctor", "unlock"})
    /\ \A t \in Threads : (pc[t] # "idle") ~> (pc[t] = "done")

\* C12 witness: the statement of one thread has failed when its result was
\* stored, and before that failure has reached the caller another thread
\* holds the mutex and has run its own statement.
C12_Witness ==
    \E t1, t2 \in Threads :
        /\ t1 # t2
        /\ pc[t1] = "catch"
        /\ exc[t1] = <<StorePrefix, ErrLostOnRead>>
        /\ owner = t2
        /\ pc[t2] = "store"

\* ---------------------------------------------------------------- C13
\* The rows of userip for the pair (userId, ip).
Sightings(d, userId, ip) ==
    SelectSeq(d.userip, LAMBDA row : row.user_id.v = userId /\ row.ip.v = ip)

\* Thread t's statement runs in this step.
Runs(t) == pc[t] = "query" /\ pc'[t] = "store"

\* C13: userip never holds two rows of one (user_id, ip) pair; no step
\* removes a row, changes its pair or lowers its last_show_up_date; the
\* CreateOrUpdateUserIp statement that finds its pair leaves that one row
\* with the time at which the statement ran, and the one that does not find
\* it adds the pair's row.
C13_OneRowPerPairTouched ==
    /\ [](\A k1, k2 \in DOMAIN db.userip :
            (/\ db.userip[k1].user_id = db.userip[k2].user_id
             /\ db.userip[k1].ip = db.userip[k2].ip) => k1 = k2)
    /\ [][\A k \in DOMAIN db.userip :
            /\ k \in DOMAIN db'.userip
            /\ db'.userip[k].user_id = db.userip[k].user_id
            /\ db'.userip[k].ip = db.userip[k].ip
            /\ db'.userip[k].last_show_up_date.v >= db.userip[k].last_show_up_date.v]_vars
    /\ [][\A t \in Threads :
            (Runs(t) /\ op[t].kind = "CreateOrUpdateUserIp")
                => /\ Len(Sightings(db', op[t].id, op[t].ip)) = 1
                   /\ Sightings(db, op[t].id, op[t].ip) # <<>>
                        => Sightings(db', op[t].id, op[t].ip)[1].last_show_up_date
                              = Cell(now')]_vars

\* C13 witness: two calls for one pair have returned, the later statement
\* ran at a later time than the row showed before, and the pair has one row
\* that shows that time.
C13_Witness ==
    \E t1, t2 \in Threads :
        /\ t1 # t2
        /\ Returned(t1, "CreateOrUpdateUserIp")
        /\ Returned(t2, "CreateOrUpdateUserIp")
        /\ op[t1] = op[t2]
        /\ Len(Sightings(db, op[t1].id, op[t1].ip)) = 1
        /\ Sightings(lin[t2].at, op[t1].id, op[t1].ip) # <<>>
        /\ Sightings(lin[t2].at, op[t1].id, op[t1].ip)[1].last_show_up_date.v < now
        /\ Sightings(db, op[t1].id, op[t1].ip)[1].last_show_up_date = Cell(now)

\* ---------------------------------------------------------------- C14
BanTables == {"userban", "ipban"}

\* The ids of the rows of a table.
Ids(rows) == {rows[k].id.v : k \in DOMAIN rows}

\* The operation that creates bans in a table, and the column of its subject.
BanCreator(table) == IF table = "userban" THEN "CreateUserBan" ELSE "CreateIpBan"

BanSubject(o) == IF o.kind = "CreateUserBan" THEN Cell(o.id) ELSE Cell(o.ip)

SubjectOf(table, row) == IF table = "userban" THEN row.user_id ELSE row.ip

\* C14: a step leaves a ban table as it is or appends one row to it; a row is
\* appended only when the INSERT of a CreateUserBan / CreateIpBan runs, each
\* such INSERT that succeeds appends one row, for the caller's subject and
\* with an id no row of the table has; and the id the call returns is the id
\* of one row of the table, a row of the caller's subject.
C14_BansAppendOnly ==
    /\ [][\A table \in BanTables :
            \/ db'[table] = db[table]
            \/ /\ Len(db'[table]) = Len(db[table]) + 1
               /\ SubSeq(db'[table], 1, Len(db[table])) = db[table]
               /\ db'[table][Len(db'[table])].id.v \notin Ids(db[table])
               /\ \E t \in Threads :
                     /\ Runs(t)
                     /\ op[t].kind = BanCreator(table)
                     /\ SubjectOf(table, db'[table][Len(db'[table])])
                            = BanSubject(op[t])
                     /\ sess'.insertId = db'[table][Len(db'[table])].id.v]_vars
    /\ [][\A t \in Threads : \A table \in BanTables :
            (Runs(t) /\ op[t].kind = BanCreator(table))
                => Len(db'[table]) = Len(db[table]) + 1]_vars
    /\ [](\A t \in Threads : \A table \in BanTables :
            Returned(t, BanCreator(table))
                => \E k \in DOMAIN db[table] :
                      /\ db[table][k].id.v = ret[t].v
                      /\ SubjectOf(table, db[table][k]) = BanSubject(op[t])
                      /\ \A j \in DOMAIN db[table] :
                            db[table][j].id.v = ret[t].v => j = k)

\* C14 witness: a ban of an address that already had one has been created
\* and its id returned, and another operation has run since on the session.
C14_Witness ==
    \E t1, t2 \in Threads :
        /\ t1 # t2
        /\ Returned(t1, "CreateIpBan")
        /\ Len(db.ipban) = 2
        /\ ret[t1].v = 2
        /\ pc[t2] = "done"
        /\ op[t2].kind \in UpdateKinds \cup {"CreateOrUpdateUserIp", "GetIpBanInfo"}

\* ---------------------------------------------------------------- C15
\* The ban row a CreateUserBan / CreateIpBan call was given the id of.
CreatedBan(t) ==
    LET rows == db[IF op[t].kind = "CreateUserBan" THEN "userban" ELSE "ipban"]
    IN  rows[CHOOSE k \in DOMAIN rows : rows[k].id.v = ret[t].v]

\* The bans stored: the row of a ban created without expiration has a NULL
\* expiration_date, the row of one created with expiration e has e.
C15_StoredExpiration ==
    \A t \in Threads :
        (Returned(t, "CreateUserBan") \/ Returned(t, "CreateIpBan"))
            => CreatedBan(t).expiration_date
                  = (IF op[t].exp = -1 THEN NullInt ELSE Cell(op[t].exp))

\* The bans of an address resolved: GetIpBanInfo called when the address had
\* a ban without expiration returns -1.
C15_PermanentIpBanWins ==
    \A t \in Threads :
        (pc[t] = "done" /\ op[t].kind = "GetIpBanInfo" /\ lin[t].perm
         /\ ~EnvFailure(t))
            => (ret[t].ok /\ ret[t].v.ban_expiration = -1)

\* C15: the stored expiration is NULL for the sentinel -1 and t for t, and a
\* ban lookup (GetIpBanInfo of an address, GetUserLoginInfo of an existing
\* user) called when its subject had a ban without expiration returns -1,
\* unless the server or the connection fails.
C15_PermanentBanWins ==
    /\ C15_StoredExpiration
    /\ C15_PermanentIpBanWins
    /\ \A t \in Threads :
          (pc[t] = "done" /\ op[t].kind = "GetUserLoginInfo" /\ lin[t].perm
           /\ lin[t].pre # 0 /\ ~EnvFailure(t))
              => (ret[t].ok /\ ret[t].v.ban_expiration = -1)

\* ---------------------------------------------------------------- C16
\* The column an update operation is for.
OwnColumn(kind) ==
    CASE kind = "UpdateUserLastLoginDate" -> "last_login_date"
      [] kind = "UpdateUserLastLoginServerOnlineDate" -> "last_loginserver_online_date"
      [] kind = "UpdateUserLastGameServerOnlineDate" -> "last_gameserver_online_date"

\* Database d with column col of the user rows of id userId set to time n.
Touched(d, userId, col, n) ==
    [d EXCEPT !.user =
        [k \in DOMAIN d.user |->
            IF d.user[k].id = Cell(userId)
                THEN [d.user[k] EXCEPT ![col] = Cell(n)]
                ELSE d.user[k]]]

\* C16: the statement of an update operation leaves every table as it was
\* when no user has the id, and otherwise changes nothing but the
\* operation's own column of the row of that id, set to the time the
\* statement ran; no other step of the call changes the database; the call
\* returns without exception unless the server or the connection fails.
C16_UpdateTouchesOwnColumn ==
    /\ [][\A t \in Threads :
            (Runs(t) /\ op[t].kind \in UpdateKinds)
                => IF UserExists(db, op[t].id)
                     THEN db' = Touched(db, op[t].id, OwnColumn(op[t].kind), now')
                     ELSE db' = db]_vars
    /\ [][db' # db => \E t \in Threads : Runs(t)]_vars
    /\ [](\A t \in Threads :
            (pc[t] = "done" /\ op[t].kind \in UpdateKinds /\ ~EnvFailure(t))
                => ret[t].ok)

\* C16 witness: an update for an id without row has returned, having left
\* the user there is as it was, and an update for the id of a user has
\* returned with that row's column changed.
C16_Witness ==
    \E t1, t2 \in Threads :
        /\ Returned(t1, "UpdateUserLastLoginDate")
        /\ ~UserExists(lin[t1].at, op[t1].id)
        /\ lin[t1].at.user # <<>>
        /\ Returned(t2, "UpdateUserLastGameServerOnlineDate")
        /\ UserExists(lin[t2].at, op[t2].id)
        /\ db # lin[t2].at
        /\ db = Touched(lin[t2].at, op[t2].id, "last_gameserver_online_date", now)

\* The update for the id of one of two users has returned, with the other
\* user's row as it was.
C16_WitnessTwoRows ==
    \E t \in Threads :
        /\ Returned(t, "UpdateUserLastLoginServerOnlineDate")
        /\ Len(lin[t].at.user) = 2
        /\ UserExists(lin[t].at, op[t].id)
        /\ db # lin[t].at
        /\ db = Touched(lin[t].at, op[t].id, "last_loginserver_online_date", now)

\* ---------------------------------------------------------------- C17
\* The kind of error an exception of MysqlResult or MysqlValue stands for,
\* by its what().
ErrorKind(e) ==
    IF e = <<>> THEN "none"
    ELSE CASE e[1] \in {"Cannot retrieve a value because the result is null.",
                        "Cannot retrieve the name of a column because the result is null."}
                -> "NullResult"
           [] e[1] \in {"Cannot retrieve a value because there are no columns.",
                        "Cannot retrieve a value because there are no rows.",
                        "Column index cannot be negative.",
                        "Row index cannot be negative.",
                        "Column index is out of range.",
                        "Row index is out of range."}
                -> "OutOfRange"
           [] e[1] = "Column name not found." -> "ColumnNotFound"
           [] e[1] \in {"A null MySQL value cannot be converted to string.",
                        "A null MySQL value cannot be converted to int.",
                        "A null MySQL value cannot be converted to bool."}
                -> "NullValue"
           [] OTHER -> "other"

\* The result in the caller's hands has a column of that name.
HasColumn(columnName) ==
    \E i \in DOMAIN mr.r.fields : mr.r.fields[i] = columnName

\* The row index of the last access is one of the result's rows.
RowInRange == 0 <= mr.row /\ mr.row <= mr.r.rowCount - 1

\* C17: the last access to the result ended in the error of its case: any
\* GetValue on a null result in NullResult; on a result set, GetValue by
\* indexes with a row or column index out of range in OutOfRange, GetValue
\* by an unknown name in ColumnNotFound, GetValue by a known name with a row
\* index out of range in OutOfRange; each conversion of a NULL cell in
\* NullValue.
C17_AccessErrors ==
    /\ (mr.call \in ByIndex \cup ByName /\ mr.r.isNull)
            => ErrorKind(mr.e) = "NullResult"
    /\ (mr.call \in ByIndex /\ ~mr.r.isNull
         /\ ~(RowInRange /\ 0 <= mr.col /\ mr.col <= mr.r.columnCount - 1))
            => ErrorKind(mr.e) = "OutOfRange"
    /\ (mr.call \in ByName /\ ~mr.r.isNull /\ ~HasColumn(mr.name))
            => ErrorKind(mr.e) = "ColumnNotFound"
    /\ (mr.call \in ByName /\ ~mr.r.isNull /\ HasColumn(mr.name) /\ ~RowInRange)
            => ErrorKind(mr.e) = "OutOfRange"
    /\ (mr.call \in Conversions /\ mr.v.isNull)
            => ErrorKind(mr.e) = "NullValue"

\* C17 witness: a NULL cell reached by name was converted with
\* AsLongLongInt, which failed.
C17_Witness ==
    /\ mr.call = "AsLongLongInt"
    /\ mr.name \in ColumnNames
    /\ mr.v.isNull
    /\ ErrorKind(mr.e) = "NullValue"

\* The other cases happen: an access to a null result; an index out of
\* range; an unknown name, with a row index out of range as well.
C17_WitnessNullResult ==
    mr.call \in ByIndex \cup ByName /\ mr.r.isNull /\ ErrorKind(mr.e) = "NullResult"

C17_WitnessOutOfRange ==
    /\ mr.call = "GetValue(int, int)"
    /\ mr.row = mr.r.rowCount
    /\ mr.r.rowCount > 0
    /\ mr.col = 0
    /\ ErrorKind(mr.e) = "OutOfRange"

C17_WitnessColumnNotFound ==
    /\ mr.call = "GetValue(int, const char*)"
    /\ ~mr.r.isNull
    /\ ~HasColumn(mr.name)
    /\ ~RowInRange
    /\ ErrorKind(mr.e) = "ColumnNotFound"

\* ---------------------------------------------------------------- C18
\* C18: a ban lookup (GetIpBanInfo of an address, GetUserLoginInfo of an
\* existing user) whose statement found only bans with expiration returns
\* the largest of the stored expirations, as the number stored and above 0,
\* unless the server or the connection fails.
C18_ExpirationReturnedWhole ==
    \A t \in Threads :
        (/\ pc[t] = "done"
         /\ op[t].kind \in {"GetIpBanInfo", "GetUserLoginInfo"}
         /\ op[t].kind = "GetUserLoginInfo" => lin[t].pre # 0
         /\ lin[t].subject # <<>>
         /\ \A k \in DOMAIN lin[t].subject : ~lin[t].subject[k].expiration_date.isNull
         /\ ~EnvFailure(t))
            => /\ ret[t].ok
               /\ ret[t].v.ban_expiration = BanResolution(lin[t].subject)
               /\ ret[t].v.ban_expiration > 0

\* The same for bans an int can hold: the lookup of an address with one
\* ban, until a time up to IntMax, returns that time.
C18_NearExpirationReturned ==
    \A t \in Threads :
        (/\ pc[t] = "done"
         /\ op[t].kind = "GetIpBanInfo"
         /\ Len(lin[t].subject) = 1
         /\ ~lin[t].subject[1].expiration_date.isNull
         /\ lin[t].subject[1].expiration_date.v <= IntMax
         /\ ~EnvFailure(t))
            => /\ ret[t].ok
               /\ ret[t].v.ban_expiration = lin[t].subject[1].expiration_date.v

\* ---------------------------------------------------------------- C19
\* C19: fetchedRows is rows 0..high of the stored set in their order, high
\* being the highest row index a GetValue has returned a value for; it is
\* never longer than rowCount; no access removes or changes a row of it; a
\* GetValue by indexes that returns, returns that cell of the stored set.
C19_FetchedRowsArePrefix ==
    /\ [](/\ mr.r.fetchedRows = SubSeq(mr.r.data, 1, mr.high + 1)
          /\ Len(mr.r.fetchedRows) <= mr.r.rowCount
          /\ (mr.call \in ByIndex /\ mr.e = <<>>)
                => mr.v = mr.r.data[mr.row + 1][mr.col + 1])
    /\ [][/\ Len(mr'.r.fetchedRows) >= Len(mr.r.fetchedRows)
          /\ SubSeq(mr'.r.fetchedRows, 1, Len(mr.r.fetchedRows)) = mr.r.fetchedRows]_vars

\* C19 witness: after the last row was asked for, an earlier row was asked
\* for and returned from the rows kept.
C19_Witness ==
    /\ mr.call = "GetValue(int, int)"
    /\ mr.e = <<>>
    /\ mr.r.rowCount > 1
    /\ mr.high = mr.r.rowCount - 1
    /\ mr.row < mr.high
    /\ Len(mr.r.fetchedRows) = mr.r.rowCount
    /\ mr.v = mr.r.data[mr.row + 1][mr.col + 1]

\* ---------------------------------------------------------------- C20
\* The outcome of FindColumnIndex the specification asks for: the index of
\* the first column of that name, ColumnNotFound when there is none.
Resolved(f, columnName) ==
    IF HasColumn(columnName)
        THEN /\ f.e = <<>>
             /\ mr.r.fields[f.v + 1] = columnName
             /\ \A i \in 1..f.v : mr.r.fields[i] # columnName
        ELSE ErrorKind(f.e) = "ColumnNotFound"

\* C20: for a result set and every name, FindColumnIndex on the first call
\* (empty columnNames), on a call after it, and on a call with the
\* columnNames the accesses so far have left, gives the same outcome, the
\* one asked for; and the last GetValue by name behaved accordingly.
C20_SameOnBothPaths ==
    ~mr.r.isNull =>
        /\ \A columnName \in ColumnNameArgs :
              /\ Resolved(FindColumnIndex(mr.r, <<>>, columnName), columnName)
              /\ Resolved(FindColumnIndex(mr.r,
                              FindColumnIndex(mr.r, <<>>, columnName).columnNames,
                              columnName), columnName)
              /\ FindColumnIndex(mr.r, <<>>, columnName).v
                    = FindColumnIndex(mr.r,
                          FindColumnIndex(mr.r, <<>>, columnName).columnNames,
                          columnName).v
              /\ Resolved(FindColumnIndex(mr.r, mr.r.columnNames, columnName), columnName)
        /\ mr.r.columnNames \in {<<>>, mr.r.fields}
        /\ mr.call \in ByName =>
              /\ mr.r.columnNames = mr.r.fields
              /\ ErrorKind(mr.e) = "ColumnNotFound" <=> ~HasColumn(mr.name)
              /\ mr.e = <<>> =>
                    mr.v = mr.r.data[mr.row + 1][StdFind(mr.r.fields, mr.name) + 1]

\* C20 witness: the first call was for an unknown name, and a later call
\* for a name two columns have returned the cell of the first of them.
C20_Witness ==
    /\ mr.call \in ByName
    /\ mr.firstName = "zz"
    /\ mr.name \in ColumnNames
    /\ \E i, j \in DOMAIN mr.r.fields :
          i < j /\ mr.r.fields[i] = mr.name /\ mr.r.fields[j] = mr.name
    /\ mr.e = <<>>
    /\ mr.v = mr.r.data[mr.row + 1][1]

\* ---------------------------------------------------------------- C21
\* Thread t's statement is answered in this step.
Answered(t) == pc[t] = "query" /\ pc'[t] # "query"

\* C21: the statement of a CreateUser whose name has its row is refused by
\* mysql_query (duplicate entry, or a failure of the server), with the
\* database unchanged and the mutex given up; the call ends in a
\* QueryException with its statement and the thread does not hold the mutex;
\* a GetUserId whose statement found the name's row returns that row's id
\* unless the server or the connection fails; no step removes a user row or
\* changes its id or its name.
C21_DuplicateNameRefused ==
    /\ [][\A t \in Threads :
            (Answered(t) /\ op[t].kind = "CreateUser" /\ UserIdOf(db, op[t].name) # 0)
                => /\ pc'[t] = "catch"
                   /\ exc'[t] \in {<<StorePrefix, ErrDuplicate>>,
                                   <<StorePrefix, ErrLockWait>>}
                   /\ db' = db
                   /\ owner' = 0]_vars
    /\ [](\A t \in Threads :
            (pc[t] = "done" /\ op[t].kind = "CreateUser"
             /\ UserIdOf(lin[t].at, op[t].name) # 0)
                => /\ ~ret[t].ok
                   /\ ret[t].failure.query = Stmt(op[t], 1)
                   /\ owner # t)
    /\ [](\A t \in Threads :
            (pc[t] = "done" /\ op[t].kind = "GetUserId"
             /\ UserIdOf(lin[t].at, op[t].name) # 0 /\ ~EnvFailure(t))
                => /\ ret[t].ok
                   /\ ret[t].v = UserIdOf(lin[t].at, op[t].name))
    /\ [][\A k \in DOMAIN db.user :
            /\ k \in DOMAIN db'.user
            /\ db'.user[k].id = db.user[k].id
            /\ db'.user[k].name = db.user[k].name]_vars

\* C21 witness: a CreateUser of a name that had its row was refused as a
\* duplicate, the table is as it was, nobody holds the mutex, and a
\* GetUserId of that name has returned the id of the row.
C21_Witness ==
    \E t1, t2 \in Threads :
        /\ pc[t1] = "done"
        /\ op[t1].kind = "CreateUser"
        /\ exc[t1] = <<StorePrefix, ErrDuplicate>>
        /\ ~ret[t1].ok
        /\ db.user = lin[t1].at.user
        /\ owner = 0
        /\ Returned(t2, "GetUserId")
        /\ op[t2].name = op[t1].name
        /\ lin[t2].at.user = lin[t1].at.user
        /\ ret[t2].v = UserIdOf(lin[t1].at, op[t1].name)
        /\ ret[t2].v > 0

====
